---- MODULE Spec2Model ----
(***************************************************************************)
(* Model of src/src/etl_pipeline.py: the SCATS traffic-volume ETL.         *)
(*   load_selected_sites  -> LoadSelectedSites                             *)
(*   process_csv          -> ProcessCsv and its stage operators            *)
(*   process_zip_file     -> ProcessZipFile                                *)
(*   validate_schema      -> ValidateSchema                                *)
(*   main                 -> the actions of Spec                           *)
(* A DataFrame is a sequence of rows (records); a missing cell (NaN) of a  *)
(* raw volume column is the empty sequence, a present value v is <<v>>.    *)
(***************************************************************************)
EXTENDS Integers, Sequences, FiniteSets, TLC

VARIABLES
    pc,             \* position of the modelled run
    selected_sites, \* the Series returned by load_selected_sites
    csv_file,       \* the raw table handed to process_csv (SpecClean)
    df,             \* the DataFrame returned by process_csv (SpecClean)
    zip_1,          \* the yearly archive handed to process_zip_file (SpecWalk)
    data_dir,       \* DATA_DIR: year -> yearly archive (Spec)
    todo,           \* main: the yearly archives still to iterate, sorted
    year,           \* main: the year of the current iteration (0 before)
    traffic_df,     \* the table returned by process_zip_file / handed to validate_schema
    schema,         \* the schema handed to validate_schema (SpecValidate)
    errors,         \* validate_schema: the errors list
    output_dir      \* OUTPUT_DIR: year -> <<>> or <<the table this run wrote>>

vars == <<pc, selected_sites, csv_file, df, zip_1, data_dir, todo, year,
          traffic_df, schema, errors, output_dir>>

clean_vars == <<csv_file, df>>
main_vars  == <<data_dir, todo, year, output_dir>>
valid_vars == <<schema, errors>>

---------------------------------------------------------------------------
\* Configuration (etl_pipeline.py lines 21-30)

SELECTED_SUBURBS ==
    {"East Melbourne", "Richmond", "Cremorne", "Jolimont", "Melbourne",
     "South Yarra", "Southbank", "South Melbourne", "Fitzroy", "Collingwood"}

\* range(24) of the hourly aggregation
HoursPerDay == 24

\* the slice volume_cols[h * 4 : (h + 1) * 4]
WindowsPerHour == 4

\* the volume columns of the source layout, V00 .. V95, in file order
volume_cols == 1 .. (HoursPerDay * WindowsPerHour)

\* the largest value of numpy's int16
Int16Max == 32767

---------------------------------------------------------------------------
\* Helpers

NaN == <<>>

\* f[lo] + ... + f[hi], 0 when the range is empty
RECURSIVE SumRange(_, _, _)
SumRange(f, lo, hi) ==
    IF lo > hi THEN 0 ELSE f[lo] + SumRange(f, lo + 1, hi)

RECURSIVE Flatten(_)
Flatten(ss) ==
    IF ss = <<>> THEN <<>> ELSE Head(ss) \o Flatten(Tail(ss))

Range(s) == {s[i] : i \in DOMAIN s}

\* .astype("int16") of an integer array: numpy keeps the low 16 bits
AstypeInt16(x) == ((x + Int16Max + 1) % (2 * (Int16Max + 1))) - (Int16Max + 1)

\* .astype("int16") of a float64 array: exact in range; out of range the C
\* cast is undefined, and the build either keeps the low 16 bits or saturates
FloatAstypeInt16(x, float_cast) ==
    IF x >= -(Int16Max + 1) /\ x <= Int16Max THEN x
    ELSE IF float_cast = "wrap" THEN AstypeInt16(x)
    ELSE IF x > 0 THEN Int16Max ELSE -(Int16Max + 1)

FloatCasts == {"wrap", "saturate"}

---------------------------------------------------------------------------
\* load_selected_sites

\* site_df.loc[site_df["suburb"].isin(SELECTED_SUBURBS), "site_id"].astype("int16")
LoadSelectedSites(site_df) ==
    LET kept == SelectSeq(site_df, LAMBDA r : r.suburb \in SELECTED_SUBURBS)
    IN  [i \in 1 .. Len(kept) |-> AstypeInt16(kept[i].site_id)]

---------------------------------------------------------------------------
\* process_csv

\* faulty variant of SiteFilter: the site filter is skipped
SiteFilterSkipped(raw, sites) == raw

\* df[df["NB_SCATS_SITE"].isin(selected_sites)]
SiteFilter(raw, sites) ==
    SelectSeq(raw, LAMBDA r : r.NB_SCATS_SITE \in Range(sites))

\* faulty variant of AnyPositive: any non-zero value keeps the row
AnyNonZero(r) ==
    \E j \in volume_cols : r.V[j] # NaN /\ r.V[j][1] # 0

\* (df[volume_cols] > 0).any(axis=1) for one row; NaN > 0 is False
AnyPositive(r) ==
    \E j \in volume_cols : r.V[j] # NaN /\ r.V[j][1] > 0

\* df[(df[volume_cols] > 0).any(axis=1)]
PositiveFilter(rows) == SelectSeq(rows, AnyPositive)

\* df.fillna(0) on the volume columns of one row
FillNa(V) == [j \in volume_cols |-> IF V[j] = NaN THEN 0 ELSE V[j][1]]

\* df[volume_cols].mask(neg_mask, 0) for one row
MaskNeg(F) == [j \in volume_cols |-> IF F[j] < 0 THEN 0 ELSE F[j]]

\* faulty variant of NegCount: the negatives are counted after they were zeroed
NegCountAfterZeroing(F) == Cardinality({j \in volume_cols : MaskNeg(F)[j] < 0})

\* neg_mask.sum(axis=1) for one row, neg_mask = df[volume_cols] < 0
NegCount(F) == Cardinality({j \in volume_cols : F[j] < 0})

\* read_csv infers float64 for a volume column holding a missing value
\* anywhere in the file, int64 otherwise
IsFloatCol(raw, j) == \E i \in DOMAIN raw : raw[i].V[j] = NaN

\* df[volume_cols].astype("int16") for one row
VolumesAsInt16(raw, F, float_cast) ==
    [j \in volume_cols |->
        IF IsFloatCol(raw, j) THEN FloatAstypeInt16(F[j], float_cast)
        ELSE AstypeInt16(F[j])]

\* df[volume_cols[h * 4 : (h + 1) * 4]].sum(axis=1) for hour_{h}, h = 1 .. 24
\* (the sum of int16 columns is accumulated in int64)
HourlyVolume(F, h) ==
    SumRange(F, (h - 1) * WindowsPerHour + 1, h * WindowsPerHour)

\* pd.to_datetime(df["datetime"]): the day's timestamp, at midnight
ToDatetime(day) == [day |-> day, hour |-> 0]

\* lines 72-112 for one retained row: rename, working-period correction,
\* zeroing, casts and the 24 hourly sums (the wide row before melt)
WideRow(raw, r, float_cast) ==
    LET F == FillNa(r.V)
        I == VolumesAsInt16(raw, MaskNeg(F), float_cast)
    IN  [site_id              |-> r.NB_SCATS_SITE,
         datetime             |-> ToDatetime(r.QT_INTERVAL_COUNT),
         detector_id          |-> r.NB_DETECTOR,
         working_period_count |-> r.CT_RECORDS - NegCount(F),
         hour                 |-> [h \in 1 .. HoursPerDay |-> HourlyVolume(I, h)]]

\* df.melt(...) then the five-column selection: the rows of hour_1 for every
\* wide row, then those of hour_2, ...; the "hour" label is not selected
Melt(wide) ==
    LET n == Len(wide)
    IN  [k \in 1 .. (n * HoursPerDay) |->
            LET w == wide[((k - 1) % n) + 1]
                h == ((k - 1) \div n) + 1
            IN  [datetime             |-> w.datetime,
                 site_id              |-> w.site_id,
                 detector_id          |-> w.detector_id,
                 volume               |-> w.hour[h],
                 working_period_count |-> w.working_period_count]]

\* the rows of the raw table that survive both filters, in file order
Retained(raw, sites) == PositiveFilter(SiteFilter(raw, sites))

ProcessCsv(raw, sites, float_cast) ==
    LET kept == Retained(raw, sites)
    IN  Melt([i \in 1 .. Len(kept) |-> WideRow(raw, kept[i], float_cast)])

---------------------------------------------------------------------------
\* process_zip_file
\* A zip archive is a function from its member names to their contents; names
\* are numbers whose order is the lexicographic order of the names.

\* sorted(...) of a set of names
RECURSIVE Sorted(_)
Sorted(S) ==
    IF S = {} THEN <<>>
    ELSE LET m == CHOOSE x \in S : \A y \in S : x <= y
         IN  <<m>> \o Sorted(S \ {m})

\* the extension of a member name of a sub-archive
Extension(name) == <<".csv", ".CSV", ".txt">>[name]

\* str.lower() of an extension
Lower(ext) == IF ext = ".CSV" THEN ".csv" ELSE ext

\* csv_name.lower().endswith(".csv")
IsCsvName(name) == Lower(Extension(name)) = ".csv"

\* the members of one sub-archive that the inner loop processes, in its order
CsvNames(zip_2) == SelectSeq(Sorted(DOMAIN zip_2), IsCsvName)

\* the calls of process_csv in the order the two loops make them: each with
\* the enumerate index i of its sub-archive (0-based) and the file read
Traversal(zip) ==
    LET inner == Sorted(DOMAIN zip)
    IN  Flatten([a \in 1 .. Len(inner) |->
            LET zip_2 == zip[inner[a]]
                names == CsvNames(zip_2)
            IN  [b \in 1 .. Len(names) |-> [i |-> a - 1, file |-> zip_2[names[b]]]]])

\* pd.read_csv(csv_file, dtype=CSV_DTYPES) raises on a non-numeric
\* identifier or count field
ReadCsvFails(file) == ~file.numeric

\* df.iloc[1:]
IlocFrom1(d) == SubSeq(d, 2, Len(d))

\* dfs.append(df.iloc[1:] if i > 0 else df)
Appended(i, d) == IF i > 0 THEN IlocFrom1(d) ELSE d

\* process_zip_file: raised is TRUE when a read_csv fails or when pd.concat
\* is given no table; otherwise df is pd.concat(dfs, ignore_index=True)
ProcessZipFile(zip, sites, float_cast) ==
    LET calls == Traversal(zip)
        dfs   == [k \in 1 .. Len(calls) |->
                    Appended(calls[k].i,
                             ProcessCsv(calls[k].file.rows, sites, float_cast))]
        fails == \E k \in 1 .. Len(calls) : ReadCsvFails(calls[k].file)
    IN  IF fails \/ Len(calls) = 0
        THEN [raised |-> TRUE, df |-> <<>>]
        ELSE [raised |-> FALSE, df |-> Flatten(dfs)]

---------------------------------------------------------------------------
\* validate_schema
\* A validated table is [dtype : column -> dtype name, rows : sequence of
\* column -> value, na : the set of <<row index, column>> cells holding NaN/NaT].
\* A schema is the sequence of its items, each [col, rules].

SCHEMA ==
    << [col |-> "datetime", rules |-> [dtype |-> "datetime", allow_na |-> FALSE]],
       [col |-> "site_id", rules |-> [dtype |-> "int", allow_na |-> FALSE]],
       [col |-> "detector_id", rules |-> [dtype |-> "int", allow_na |-> FALSE]],
       [col |-> "volume", rules |-> [dtype |-> "int", min |-> 0, allow_na |-> FALSE]],
       [col |-> "working_period_count",
        rules |-> [dtype |-> "int", min |-> 0, allow_na |-> FALSE]] >>

\* rules.get(key, default)
Get(rules, key, default) == IF key \in DOMAIN rules THEN rules[key] ELSE default

\* pd.api.types.is_integer_dtype(s)
IsIntegerDtype(dtype) == dtype \in {"int8", "int16", "int64"}

\* pd.api.types.is_datetime64_any_dtype(s)
IsDatetime64AnyDtype(dtype) == dtype = "datetime64"

\* s.isna().any()
IsnaAny(table, col) == \E i \in DOMAIN table.rows : <<i, col>> \in table.na

\* (s < bound).any(); a comparison with NaN is False
LessThanAny(table, col, bound) ==
    \E i \in DOMAIN table.rows : <<i, col>> \notin table.na /\ table.rows[i][col] < bound

\* the errors one schema item appends, in order
ColumnErrors(table, col, rules) ==
    IF col \notin DOMAIN table.dtype
    THEN << [col |-> col, error |-> "Missing column"] >>
    ELSE (IF ~Get(rules, "allow_na", TRUE) /\ IsnaAny(table, col)
          THEN << [col |-> col, error |-> "contains NaN values"] >> ELSE <<>>)
      \o (IF Get(rules, "dtype", "") = "int" /\ ~IsIntegerDtype(table.dtype[col])
          THEN << [col |-> col, error |-> "not integer dtype"] >> ELSE <<>>)
      \o (IF Get(rules, "dtype", "") = "datetime"
                /\ ~IsDatetime64AnyDtype(table.dtype[col])
          THEN << [col |-> col, error |-> "not datetime dtype"] >> ELSE <<>>)
      \o (IF "min" \in DOMAIN rules /\ LessThanAny(table, col, rules["min"])
          THEN << [col |-> col, error |-> "contains values <", bound |-> rules["min"]] >>
          ELSE <<>>)

\* validate_schema: the errors list; the function raises ValueError when it
\* is not empty
ValidateSchema(table, sch) ==
    Flatten([k \in 1 .. Len(sch) |-> ColumnErrors(table, sch[k].col, sch[k].rules)])

\* the table process_zip_file returns, as validate_schema sees it: the dtypes
\* process_csv leaves (to_datetime, the int16/int8 of CSV_DTYPES, the int64 of
\* the hourly sums and of the corrected count), no missing cell after fillna
CleanedTable(rows) ==
    [dtype |-> [datetime |-> "datetime64", site_id |-> "int16",
                detector_id |-> "int8", volume |-> "int64",
                working_period_count |-> "int64"],
     rows  |-> rows,
     na    |-> {}]

---------------------------------------------------------------------------
\* Inputs of the cleaning specification

\* raw cell values: missing, negative, zero, positive, one past int16
Cells == {NaN, <<-3>>, <<0>>, <<5>>, <<Int16Max + 1>>}

Quads == [1 .. WindowsPerHour -> Cells]

\* the first and the last hour of the day
ProbeHours == {1, HoursPerDay}

\* a day whose windows are zero except the four windows of hour ph
RowVolumes(ph, quad) ==
    [j \in volume_cols |->
        IF ((j - 1) \div WindowsPerHour) + 1 = ph
        THEN quad[((j - 1) % WindowsPerHour) + 1]
        ELSE <<0>>]

RawSites == {1, 2}

RawCounts == {0, 4}

RawRows ==
    {[NB_SCATS_SITE |-> s, QT_INTERVAL_COUNT |-> 1, NB_DETECTOR |-> 1,
      CT_RECORDS |-> c, V |-> RowVolumes(ph, q)] :
        s \in RawSites, c \in RawCounts, ph \in ProbeHours, q \in Quads}

\* second rows of two-row files: another detector on the next day
SecondRows ==
    {[NB_SCATS_SITE |-> s, QT_INTERVAL_COUNT |-> 2, NB_DETECTOR |-> 2,
      CT_RECORDS |-> 4, V |-> RowVolumes(1, [w \in 1 .. WindowsPerHour |-> x])] :
        s \in RawSites, x \in {NaN, <<5>>}}

CsvFiles ==
    {<<>>} \cup {<<r>> : r \in RawRows}
           \cup {<<r, t>> : r \in RawRows, t \in SecondRows}

\* site metadata: an id that fits int16 and one that does not (65537)
SiteRecords == [site_id : {1, 2 * (Int16Max + 1) + 1}, suburb : {"Richmond", "Carlton"}]

SiteInfos == {<<>>} \cup {<<a>> : a \in SiteRecords}

---------------------------------------------------------------------------
\* SpecClean: one call of process_csv on any raw table

InitClean ==
    /\ pc = "start"
    /\ selected_sites = <<>>
    /\ csv_file = <<>>
    /\ df = <<>>
    /\ zip_1 = <<>>
    /\ data_dir = <<>>
    /\ todo = <<>>
    /\ year = 0
    /\ traffic_df = <<>>
    /\ schema = <<>>
    /\ errors = <<>>
    /\ output_dir = <<>>

LoadSites ==
    /\ pc = "start"
    /\ \E site_df \in SiteInfos : selected_sites' = LoadSelectedSites(site_df)
    /\ pc' = "loaded"
    /\ UNCHANGED <<clean_vars, zip_1, main_vars, traffic_df, valid_vars>>

Clean ==
    /\ pc = "loaded"
    /\ \E raw \in CsvFiles, fc \in FloatCasts :
          /\ csv_file' = raw
          /\ df' = ProcessCsv(raw, selected_sites, fc)
    /\ pc' = "cleaned"
    /\ UNCHANGED <<selected_sites, zip_1, main_vars, traffic_df, valid_vars>>

NextClean == LoadSites \/ Clean

SpecClean == InitClean /\ [][NextClean]_vars

---------------------------------------------------------------------------
\* Inputs of the archive specifications

\* hour-1 windows [5, -3, 0, missing], the rest of the day zero, count 4
ScenarioRow ==
    [NB_SCATS_SITE |-> 1, QT_INTERVAL_COUNT |-> 1, NB_DETECTOR |-> 1, CT_RECORDS |-> 4,
     V |-> RowVolumes(1, << <<5>>, <<-3>>, <<0>>, NaN >>)]

\* a site-2 row and a site-1 row of the next day with traffic in the last hour
TwoSiteRows ==
    << [NB_SCATS_SITE |-> 2, QT_INTERVAL_COUNT |-> 1, NB_DETECTOR |-> 1, CT_RECORDS |-> 4,
        V |-> RowVolumes(1, << <<5>>, <<5>>, <<5>>, <<5>> >>)],
       [NB_SCATS_SITE |-> 1, QT_INTERVAL_COUNT |-> 2, NB_DETECTOR |-> 2, CT_RECORDS |-> 4,
        V |-> RowVolumes(HoursPerDay, << <<5>>, <<5>>, <<0>>, <<0>> >>)] >>

\* one negative window and a working-period count of 0
NegativeCountRow ==
    [NB_SCATS_SITE |-> 1, QT_INTERVAL_COUNT |-> 1, NB_DETECTOR |-> 1, CT_RECORDS |-> 0,
     V |-> RowVolumes(1, << <<5>>, <<-3>>, <<0>>, <<0>> >>)]

\* a day without traffic
ZeroRow ==
    [NB_SCATS_SITE |-> 1, QT_INTERVAL_COUNT |-> 1, NB_DETECTOR |-> 1, CT_RECORDS |-> 4,
     V |-> RowVolumes(1, << <<0>>, <<0>>, <<0>>, <<0>> >>)]

\* a member that read_csv cannot coerce (also the content of non-CSV members)
Unreadable == [numeric |-> FALSE, rows |-> <<>>]

WalkFiles ==
    {[numeric |-> TRUE, rows |-> t] :
        t \in {<<ScenarioRow>>, TwoSiteRows, <<NegativeCountRow>>, <<ZeroRow>>}}
    \cup {Unreadable}

EntryNames == DOMAIN <<".csv", ".CSV", ".txt">>

\* sub-archives: any members; a non-CSV member holds no table
InnerZips ==
    {z \in UNION {[T -> WalkFiles] : T \in SUBSET EntryNames} :
        \A n \in DOMAIN z : ~IsCsvName(n) => z[n] = Unreadable}

InnerNames == {1, 2}

\* yearly archives of up to two sub-archives
ZipArchives == UNION {[S -> InnerZips] : S \in SUBSET InnerNames}

\* the yearly archives of the whole-run specification: at most one
\* sub-archive with at most one member, a CSV file
YearArchives ==
    {z \in ZipArchives : DOMAIN z \subseteq {1} /\ \A a \in DOMAIN z : DOMAIN z[a] \subseteq {1}}

\* the number of yearly archives a run may find
MaxYears == 2

Years == 1 .. MaxYears

\* DATA_DIR: the yearly archives found, by year
DataDirs == UNION {[Y -> YearArchives] : Y \in SUBSET Years}

---------------------------------------------------------------------------
\* SpecWalk: one call of process_zip_file on any yearly archive

InitWalk == InitClean

WalkArchive ==
    /\ pc = "loaded"
    /\ \E zip \in ZipArchives, fc \in FloatCasts :
          LET r == ProcessZipFile(zip, selected_sites, fc)
          IN  /\ zip_1' = zip
              /\ traffic_df' = r.df
              /\ pc' = IF r.raised THEN "raised" ELSE "walked"
    /\ UNCHANGED <<selected_sites, clean_vars, main_vars, valid_vars>>

NextWalk == LoadSites \/ WalkArchive

SpecWalk == InitWalk /\ [][NextWalk]_vars

---------------------------------------------------------------------------
\* Spec: main, over the yearly archives of DATA_DIR

Init ==
    /\ pc = "start"
    /\ selected_sites = <<>>
    /\ csv_file = <<>>
    /\ df = <<>>
    /\ zip_1 = <<>>
    /\ data_dir \in DataDirs
    /\ todo = <<>>
    /\ year = 0
    /\ traffic_df = <<>>
    /\ schema = SCHEMA
    /\ errors = <<>>
    /\ output_dir = [y \in Years |-> <<>>]

\* sorted(DATA_DIR.glob("*.zip")), evaluated once when the loop starts
StartLoop ==
    /\ pc = "loaded"
    /\ todo' = Sorted(DOMAIN data_dir)
    /\ pc' = "loop"
    /\ UNCHANGED <<selected_sites, clean_vars, zip_1, data_dir, year, traffic_df,
                   valid_vars, output_dir>>

\* the for statement: the next zip_path and its year, or the end of main.
\* An archive is named by its year (zip_path.stem[-4:]), one archive per year,
\* so the sorted paths are the years in ascending order.
NextZip ==
    /\ pc = "loop"
    /\ IF todo = <<>>
       THEN /\ pc' = "done"
            /\ UNCHANGED <<todo, year>>
       ELSE /\ year' = Head(todo)
            /\ todo' = Tail(todo)
            /\ pc' = "walk"
    /\ UNCHANGED <<selected_sites, clean_vars, zip_1, data_dir, traffic_df,
                   valid_vars, output_dir>>

\* faulty variant of CallProcessZipFile: a failing year is skipped and the loop goes on
CallProcessZipFileSkipping ==
    /\ pc = "walk"
    /\ \E fc \in FloatCasts :
          LET r == ProcessZipFile(data_dir[year], selected_sites, fc)
          IN  /\ traffic_df' = r.df
              /\ pc' = IF r.raised THEN "loop" ELSE "validate"
    /\ UNCHANGED <<selected_sites, clean_vars, zip_1, main_vars, valid_vars>>

\* traffic_df = process_zip_file(zip_path, selected_sites); an exception
\* leaves main
CallProcessZipFile ==
    /\ pc = "walk"
    /\ \E fc \in FloatCasts :
          LET r == ProcessZipFile(data_dir[year], selected_sites, fc)
          IN  /\ traffic_df' = r.df
              /\ pc' = IF r.raised THEN "raised" ELSE "validate"
    /\ UNCHANGED <<selected_sites, clean_vars, zip_1, main_vars, valid_vars>>

\* faulty variant of CallValidateSchema: the errors are collected but nothing is raised
CallValidateSchemaNoRaise ==
    /\ pc = "validate"
    /\ errors' = ValidateSchema(CleanedTable(traffic_df), schema)
    /\ pc' = "write"
    /\ UNCHANGED <<selected_sites, clean_vars, zip_1, main_vars, traffic_df, schema>>

\* validate_schema(traffic_df, SCHEMA); a non-empty errors list raises
CallValidateSchema ==
    /\ pc = "validate"
    /\ errors' = ValidateSchema(CleanedTable(traffic_df), schema)
    /\ pc' = IF errors' # <<>> THEN "raised" ELSE "write"
    /\ UNCHANGED <<selected_sites, clean_vars, zip_1, main_vars, traffic_df, schema>>

\* traffic_df.to_parquet(OUTPUT_DIR / f"traffic_volume_{year}.parquet")
ToParquet ==
    /\ pc = "write"
    /\ output_dir' = [output_dir EXCEPT ![year] = <<traffic_df>>]
    /\ pc' = "loop"
    /\ UNCHANGED <<selected_sites, clean_vars, zip_1, data_dir, todo, year,
                   traffic_df, valid_vars>>

Next ==
    \/ LoadSites
    \/ StartLoop
    \/ NextZip
    \/ CallProcessZipFile
    \/ CallValidateSchema
    \/ ToParquet

Spec == Init /\ [][Next]_vars

---------------------------------------------------------------------------
\* SpecValidate: one call of validate_schema on any table and schema

\* the rows a validated table may hold
MaxTableRows == 1

TableColumns == {"volume", "datetime"}

\* dtypes a column may have; only float64 and datetime64 can hold NaN / NaT
ColumnDtypes(col) ==
    IF col = "volume" THEN {"int64", "float64"} ELSE {"datetime64", "float64"}

ColumnValues(col) == IF col = "volume" THEN {-1, 0, 5} ELSE {1}

HoldsNa(dtype) == dtype \in {"float64", "datetime64"}

\* tables over any subset of the columns; a missing cell's value reads 1
Tables ==
    UNION {
        {[dtype |-> d, rows |-> r, na |-> n] :
            d \in {e \in [C -> {"int64", "float64", "datetime64"}] :
                        \A c \in C : e[c] \in ColumnDtypes(c)},
            r \in UNION {[1 .. m -> {w \in [C -> {-1, 0, 1, 5}] :
                                        \A c \in C : w[c] \in ColumnValues(c) \cup {1}}] :
                            m \in (IF C = {} THEN {0} ELSE 0 .. MaxTableRows)},
            n \in SUBSET ((1 .. MaxTableRows) \X C)}
        : C \in SUBSET TableColumns}

\* a table pandas can hold: NaN only where the dtype allows, in existing rows,
\* and a missing cell has one representation
WellFormed(t) ==
    /\ \A cell \in t.na :
          /\ cell[1] \in DOMAIN t.rows
          /\ HoldsNa(t.dtype[cell[2]])
          /\ t.rows[cell[1]][cell[2]] = 1
    /\ \A i \in DOMAIN t.rows : \A c \in DOMAIN t.dtype :
          t.rows[i][c] \in ColumnValues(c) \/ <<i, c>> \in t.na

RuleKeys == {"dtype", "allow_na", "min", "max"}

\* the rule sets of the volume field: any subset of the four rules
VolumeRules ==
    {[k \in K |-> full[k]] :
        K \in SUBSET RuleKeys,
        full \in {[dtype |-> "int", allow_na |-> a, min |-> 0, max |-> 3] : a \in BOOLEAN}}

DatetimeRules == {[dtype |-> "datetime", allow_na |-> FALSE], [dtype |-> "datetime"]}

Schemas ==
    {<< [col |-> "volume", rules |-> v] >> : v \in VolumeRules}
    \cup {<< [col |-> "datetime", rules |-> t], [col |-> "volume", rules |-> v] >> :
            t \in DatetimeRules, v \in VolumeRules}

InitValidate ==
    /\ pc = "start"
    /\ selected_sites = <<>>
    /\ csv_file = <<>>
    /\ df = <<>>
    /\ zip_1 = <<>>
    /\ data_dir = <<>>
    /\ todo = <<>>
    /\ year = 0
    /\ traffic_df \in {t \in Tables : WellFormed(t)}
    /\ schema \in Schemas
    /\ errors = <<>>
    /\ output_dir = <<>>

Validate ==
    /\ pc = "start"
    /\ errors' = ValidateSchema(traffic_df, schema)
    /\ pc' = IF errors' # <<>> THEN "raised" ELSE "valid"
    /\ UNCHANGED <<selected_sites, clean_vars, zip_1, main_vars, traffic_df, schema>>

NextValidate == Validate

SpecValidate == InitValidate /\ [][NextValidate]_vars

---------------------------------------------------------------------------
\* Properties of process_csv, stated on the raw table and the returned rows

\* the retained raw rows of the call, in file order
Kept == Retained(csv_file, selected_sites)

\* the output row of retained row i of n for hour h (melt emits hour-major)
OutRow(n, i, h) == df[(h - 1) * n + i]

Hours == 1 .. HoursPerDay

\* a raw cell's contribution to the conserved total: its value when
\* strictly positive, 0 when missing, zero or negative
PositivePart(c) == IF c # NaN /\ c[1] > 0 THEN c[1] ELSE 0

\* the number of raw cells of a row that hold a negative value
RawNegatives(V) == Cardinality({j \in volume_cols : V[j] # NaN /\ V[j][1] < 0})

\* every cell of the row is zero or absent
AllZeroOrAbsent(V) == \A j \in volume_cols : V[j] = NaN \/ V[j][1] = 0

\* no cell of the row is strictly positive
NoPositive(V) == \A j \in volume_cols : V[j] = NaN \/ V[j][1] <= 0

\* the four raw cells of hour 1
HourOne(V) == <<V[1], V[2], V[3], V[4]>>

\* C2 (as claimed): for every retained row the 24 hourly volumes sum to the sum
\* of the strictly positive raw values, hour h being windows 4h-3 .. 4h.
C2_Conservation ==
    pc = "cleaned" =>
        LET kept == Kept
            n    == Len(kept)
        IN  \A i \in 1 .. n :
                LET P == [j \in volume_cols |-> PositivePart(kept[i].V[j])]
                    H == [h \in Hours |-> OutRow(n, i, h).volume]
                IN  /\ \A h \in Hours : H[h] = SumRange(P, 4 * h - 3, 4 * h)
                    /\ SumRange(H, 1, HoursPerDay)
                          = SumRange(P, 1, HoursPerDay * WindowsPerHour)

\* C3: every output row of a retained raw row with count c and k negative raw
\* volume fields (missing fields not counted) has working_period_count = c - k;
\* hour-1 windows [5, -3, 0, missing] with c = 4 give volume 5 and count 3.
C3_WorkingPeriodCorrection ==
    pc = "cleaned" =>
        LET kept == Kept
            n    == Len(kept)
        IN  /\ Len(df) = HoursPerDay * n
            /\ \A i \in 1 .. n :
                  LET c == kept[i].CT_RECORDS
                      k == RawNegatives(kept[i].V)
                  IN  /\ \A h \in Hours :
                            OutRow(n, i, h).working_period_count = c - k
                      /\ (HourOne(kept[i].V) = <<<<5>>, <<-3>>, <<0>>, NaN>> /\ c = 4)
                         => /\ OutRow(n, i, 1).volume = 5
                            /\ OutRow(n, i, 1).working_period_count = 3

\* C3 witness: the scenario row was cleaned and its hour-1 row came out
C3_Witness ==
    /\ pc = "cleaned"
    /\ LET kept == Kept
       IN  /\ Len(kept) = 1
           /\ HourOne(kept[1].V) = <<<<5>>, <<-3>>, <<0>>, NaN>>
           /\ kept[1].CT_RECORDS = 4
           /\ df[1].volume = 5
           /\ df[1].working_period_count = 3

\* C4 (as claimed): every returned row has volume >= 0 and
\* working_period_count >= 0.
C4_NonNegative ==
    \A k \in DOMAIN df : df[k].volume >= 0 /\ df[k].working_period_count >= 0

\* C5 (as claimed): every retained row yields 24 output rows, one per hour,
\* whose datetime values are pairwise distinct (datetime carries the hour).
C5_HourIdentity ==
    pc = "cleaned" =>
        LET n == Len(Kept)
        IN  /\ Len(df) = HoursPerDay * n
            /\ \A i \in 1 .. n : \A g, h \in Hours :
                  g # h => OutRow(n, i, g).datetime # OutRow(n, i, h).datetime

\* the raw rows of a selected site, in file order
OfSelectedSite ==
    SelectSeq(csv_file, LAMBDA r : \E k \in DOMAIN selected_sites :
                                        selected_sites[k] = r.NB_SCATS_SITE)

\* C8 (as claimed): a selected-site row is dropped exactly when all its volume
\* fields are zero or absent; every other selected-site row yields output rows.
C8_AllZeroFilter ==
    pc = "cleaned" =>
        LET rows == OfSelectedSite
        IN  Len(df) = HoursPerDay *
                Cardinality({i \in DOMAIN rows : ~AllZeroOrAbsent(rows[i].V)})

\* C8 (amended): a selected-site row is dropped exactly when none of its volume
\* fields is strictly positive (each is zero, absent or negative); every other
\* selected-site row yields 24 output rows.
C8_NoPositiveFilter ==
    pc = "cleaned" =>
        LET rows == OfSelectedSite
            live == SelectSeq(rows, LAMBDA r : ~NoPositive(r.V))
            n    == Len(live)
        IN  /\ Len(df) = HoursPerDay * n
            /\ \A i \in 1 .. n : \A h \in Hours :
                  /\ OutRow(n, i, h).detector_id = live[i].NB_DETECTOR
                  /\ OutRow(n, i, h).site_id = live[i].NB_SCATS_SITE

\* C8 witness: a selected-site row whose only non-zero fields are negative was
\* cleaned and produced no output row
C8_Witness ==
    /\ pc = "cleaned"
    /\ LET rows == OfSelectedSite
       IN  /\ Len(rows) = 1
           /\ ~AllZeroOrAbsent(rows[1].V)
           /\ NoPositive(rows[1].V)
    /\ df = <<>>

---------------------------------------------------------------------------
\* Properties of process_zip_file (SpecWalk)

\* C1 (as claimed): the yearly table is the full cleaned table of the first file
\* of the traversal followed, in order, by the cleaned table of every later
\* file without its first row, wherever the later file lies.
C1_HeaderDeduplication ==
    pc = "walked" =>
        \E fc \in FloatCasts :
            LET calls   == Traversal(zip_1)
                cleaned == [k \in 1 .. Len(calls) |->
                              ProcessCsv(calls[k].file.rows, selected_sites, fc)]
            IN  traffic_df =
                    Flatten([k \in 1 .. Len(calls) |->
                        IF k = 1 THEN cleaned[k] ELSE IlocFrom1(cleaned[k])])

---------------------------------------------------------------------------
\* Properties of validate_schema (SpecValidate)

\* the rules of the schema that the table violates, as <<column, rule>>
ViolatedRules(table, sch) ==
    UNION {
        LET col   == sch[k].col
            rules == sch[k].rules
            cells == {table.rows[i][col] :
                        i \in {x \in DOMAIN table.rows : <<x, col>> \notin table.na}}
        IN  IF col \notin DOMAIN table.dtype THEN {<<col, "missing">>}
            ELSE {<<col, "na">> : x \in {1} \cap
                    (IF "allow_na" \in DOMAIN rules /\ ~rules["allow_na"]
                        /\ \E i \in DOMAIN table.rows : <<i, col>> \in table.na
                     THEN {1} ELSE {})}
              \cup {<<col, "kind">> : x \in {1} \cap
                    (IF "dtype" \in DOMAIN rules
                        /\ \/ rules["dtype"] = "int"
                              /\ table.dtype[col] \notin {"int8", "int16", "int64"}
                           \/ rules["dtype"] = "datetime"
                              /\ table.dtype[col] # "datetime64"
                     THEN {1} ELSE {})}
              \cup {<<col, "min">> : x \in {1} \cap
                    (IF "min" \in DOMAIN rules /\ \E v \in cells : v < rules["min"]
                     THEN {1} ELSE {})}
              \cup {<<col, "max">> : x \in {1} \cap
                    (IF "max" \in DOMAIN rules /\ \E v \in cells : v > rules["max"]
                     THEN {1} ELSE {})}
        : k \in DOMAIN sch}

\* the rule an error message reports
RuleOf(error) ==
    CASE error = "Missing column"      -> "missing"
      [] error = "contains NaN values" -> "na"
      [] error = "not integer dtype"   -> "kind"
      [] error = "not datetime dtype"  -> "kind"
      [] error = "contains values <"   -> "min"
      [] OTHER                         -> "max"

\* C7 (as claimed): the validator reports one violation for every violated rule
\* of every declared field (missing column, missing values, value kind, below
\* minimum, above maximum), all together, and none exactly when no rule is
\* violated; a single row of volume = -1 yields exactly one violation, naming
\* volume and its minimum.
C7_ValidatorComplete ==
    pc # "start" =>
        LET violated == ViolatedRules(traffic_df, schema)
        IN  /\ {<<errors[k].col, RuleOf(errors[k].error)>> : k \in DOMAIN errors} = violated
            /\ Len(errors) = Cardinality(violated)
            /\ (pc = "valid") <=> (violated = {})
            /\ (/\ schema = << [col |-> "volume",
                                rules |-> [dtype |-> "int", min |-> 0, allow_na |-> FALSE]] >>
                /\ traffic_df = [dtype |-> [volume |-> "int64"],
                                 rows |-> << [volume |-> -1] >>, na |-> {}])
               => errors = << [col |-> "volume", error |-> "contains values <", bound |-> 0] >>

---------------------------------------------------------------------------
\* Properties of main (Spec)

Written(y) == output_dir[y] # <<>>

SelectedSet == Range(selected_sites)

\* the raw files of every yearly archive of DATA_DIR
AllFiles ==
    UNION {{c.file : c \in Range(Traversal(data_dir[y]))} : y \in DOMAIN data_dir}

\* C9, state part: once the selected sites are loaded, no row the Record Cleaner
\* returns for any file, no row of the yearly table and no written row has a
\* site_id outside the selected-site set
C9_RowsSelected ==
    pc # "start" =>
        /\ \A f \in AllFiles : \A fc \in FloatCasts :
              \A row \in Range(ProcessCsv(f.rows, selected_sites, fc)) :
                  row.site_id \in SelectedSet
        /\ \A row \in Range(traffic_df) : row.site_id \in SelectedSet
        /\ \A y \in Years : Written(y) =>
              \A row \in Range(output_dir[y][1]) : row.site_id \in SelectedSet

\* C9: no row returned by the Record Cleaner, and no row of any yearly table,
\* has a site_id outside the selected-site set, and the selected-site set
\* computed at startup is the same before and after every later step.
C9_SiteRestriction ==
    /\ []C9_RowsSelected
    /\ [][pc # "start" => selected_sites' = selected_sites]_vars

\* C9 witness: a yearly table was built from a file holding a row of a site
\* that is not selected, and rows of the selected site came out
C9_Witness ==
    /\ pc = "write"
    /\ traffic_df # <<>>
    /\ \E c \in Range(Traversal(data_dir[year])) :
          \E r \in Range(c.file.rows) : r.NB_SCATS_SITE \notin SelectedSet

\* C6, state part: a written year's table is the table the Archive Walker
\* returned for that year without error, and the validator finds no violation
\* in it; the year being processed or failed has no table
C6_WrittenIsValid ==
    /\ \A y \in Years : Written(y) =>
          /\ y \in DOMAIN data_dir
          /\ \E fc \in FloatCasts :
                LET r == ProcessZipFile(data_dir[y], selected_sites, fc)
                IN  /\ ~r.raised
                    /\ output_dir[y] = <<r.df>>
                    /\ ValidateSchema(CleanedTable(r.df), SCHEMA) = <<>>
    /\ pc \in {"walk", "validate", "write", "raised"} => ~Written(year)

\* C6: a year's table is written only after the walker finished the year
\* without error and the validator found no violation; when cleaning or
\* validation fails nothing is written for that year, and the tables of the
\* years already completed are left unchanged.
C6_PersistenceGate ==
    /\ []C6_WrittenIsValid
    /\ [][\A y \in Years : Written(y) => output_dir'[y] = output_dir[y]]_vars
    /\ [][output_dir' # output_dir =>
            /\ pc = "write" /\ errors = <<>>
            /\ output_dir' = [output_dir EXCEPT ![year] = <<traffic_df>>]]_vars

\* C6 witness: the second year failed after the first year's table was written
C6_Witness ==
    /\ pc = "raised"
    /\ year = 2
    /\ Written(1)
    /\ ~Written(2)

\* the years with a written table are the first k archives of the sorted list
WrittenIsPrefix ==
    LET order == Sorted(DOMAIN data_dir)
    IN  \E k \in 0 .. Len(order) :
            {y \in Years : Written(y)} = {order[j] : j \in 1 .. k}

\* C10: archives are processed in sorted order and a failure ends the run: the
\* written years are always a prefix of the sorted archive list, and no year
\* after the first failing year is processed or written.
C10_AbortOnFirstFailure ==
    /\ []WrittenIsPrefix
    /\ [](pc = "raised" => \A y \in Years : y >= year => ~Written(y))
    /\ [][year' # year =>
            /\ year' > year
            /\ \A y \in DOMAIN data_dir : y < year' => Written(y)]_vars
    /\ [][pc = "raised" => UNCHANGED vars]_vars

\* C10 witness: the first year failed validation while a later archive was
\* still to be processed
C10_Witness ==
    /\ pc = "raised"
    /\ errors # <<>>
    /\ todo # <<>>
    /\ \A y \in Years : ~Written(y)

====
